---- MODULE Spec2Model ----
(***************************************************************************)
(* Model of doggo's query-preparation core:                                *)
(*   cmd/doggo/nameservers.go  loadNameservers, getDefaultServers,         *)
(*                             initNameserver                              *)
(*   pkg/resolvers/utils.go    prepareMessages, constructPossibleQuestions,*)
(*                             parseMessage                                *)
(* Strings are sequences of one-character strings, so that parsing,        *)
(* joining and re-serialising are computed character by character.         *)
(***************************************************************************)
EXTENDS Integers, Sequences, FiniteSets, TLC

VARIABLES
    hub,        \* the Hub: QueryFlags, ResolverOpts, Nameservers
    sysconf,    \* what config.GetDefaultServers() will answer
    loadRet,    \* the outcome of loadNameservers: called, err, consulted, hub0
    nsIn,       \* the string handed to initNameserver
    nsOut,      \* what initNameserver returned: called, ns, err
    query,      \* arguments of prepareMessages: q, ndots, searchList
    messages,   \* prepareMessages: called, its possibleQNames, the msgs returned
    rawMsg,     \* arguments of parseMessage: msg, rtt, server
    resp        \* what parseMessage returned: called, Authorities, Answers

vars == <<hub, sysconf, loadRet, nsIn, nsOut, query, messages, rawMsg, resp>>

(***************************************************************************)
(* Bounds of the model.                                                    *)
(***************************************************************************)
MaxBodyLen == 4     \* characters of a nameserver string after its prefix
MaxUserNs == 2      \* strings in QueryFlags.Nameservers
MaxSysServers == 1  \* addresses the system configuration lists
MaxNameLen == 3     \* characters of a question name
MaxSearch == 2      \* entries of a search list
MaxNdots == 2       \* largest ndots
MaxRR == 2          \* records in a section of a response

(***************************************************************************)
(* String helpers (Go strings package).                                    *)
(***************************************************************************)
SeqsUpTo(S, n) == UNION {[1..k -> S] : k \in 0..n}

\* strings.Index(s, c) for a one-character c, 1-based; 0 when absent
Index(s, c) ==
    IF \E i \in 1..Len(s) : s[i] = c
    THEN CHOOSE i \in 1..Len(s) : s[i] = c /\ \A j \in 1..(i-1) : s[j] # c
    ELSE 0

\* strings.LastIndex(s, c), 1-based; 0 when absent
LastIndex(s, c) ==
    IF \E i \in 1..Len(s) : s[i] = c
    THEN CHOOSE i \in 1..Len(s) : s[i] = c /\ \A j \in (i+1)..Len(s) : s[j] # c
    ELSE 0

Contains(s, c) == \E i \in 1..Len(s) : s[i] = c

Count(s, c) == Cardinality({i \in 1..Len(s) : s[i] = c})

HasPrefix(s, p) == Len(s) >= Len(p) /\ SubSeq(s, 1, Len(p)) = p

HasSuffix(s, p) == Len(s) >= Len(p) /\ SubSeq(s, Len(s) - Len(p) + 1, Len(s)) = p

\* the rest of s from its i-th character on (Go's s[i-1:])
From(s, i) == SubSeq(s, i, Len(s))

\* strings.Cut(s, c): before, after, found
Cut(s, c) ==
    LET i == Index(s, c) IN
    IF i = 0 THEN [before |-> s, after |-> <<>>, found |-> FALSE]
    ELSE [before |-> SubSeq(s, 1, i - 1), after |-> From(s, i + 1), found |-> TRUE]

LowerOf(c) ==
    CASE c = "H" -> "h" [] c = "T" -> "t" [] c = "P" -> "p" [] c = "S" -> "s"
      [] c = "L" -> "l" [] c = "C" -> "c" [] c = "U" -> "u" [] c = "D" -> "d"
      [] c = "A" -> "a" [] OTHER -> c

ToLower(s) == [i \in 1..Len(s) |-> LowerOf(s[i])]

Letters == {"a", "c", "d", "h", "l", "p", "s", "t", "u",
            "A", "C", "D", "H", "L", "P", "S", "T", "U"}
Digits == {"0", "1", "2", "3", "4", "5", "6", "7", "8", "9"}

(***************************************************************************)
(* net/url as initNameserver uses it: Parse, Hostname, Port, String.       *)
(* The inputs of the model hold letters, digits, '.' ':' '/' '#' '?' ' '   *)
(* '[' and ']'; the branches of net/url for userinfo ('@'), percent escapes*)
(* ('%') and control bytes need characters outside that alphabet.          *)
(***************************************************************************)
\* url.getScheme: scheme, rest, err
RECURSIVE getSchemeAt(_, _)
getSchemeAt(raw, i) ==
    IF i > Len(raw) THEN [scheme |-> <<>>, rest |-> raw, err |-> FALSE]
    ELSE IF raw[i] \in Letters THEN getSchemeAt(raw, i + 1)
    ELSE IF raw[i] \in Digits \cup {"+", "-", "."} THEN
        IF i = 1 THEN [scheme |-> <<>>, rest |-> raw, err |-> FALSE]
        ELSE getSchemeAt(raw, i + 1)
    ELSE IF raw[i] = ":" THEN
        IF i = 1 THEN [scheme |-> <<>>, rest |-> <<>>, err |-> TRUE]
        ELSE [scheme |-> SubSeq(raw, 1, i - 1), rest |-> From(raw, i + 1), err |-> FALSE]
    ELSE [scheme |-> <<>>, rest |-> raw, err |-> FALSE]

getScheme(raw) == getSchemeAt(raw, 1)

\* url.validOptionalPort: "" or ':' followed by digits only
validOptionalPort(port) ==
    \/ port = <<>>
    \/ /\ port[1] = ":"
       /\ \A i \in 2..Len(port) : port[i] \in Digits

\* url.parseHost fails on a bad port, and on a character url.unescape does
\* not allow in a host (' ' among the model's characters)
parseHostErr(host) ==
    Contains(host, " ") \/
    IF HasPrefix(host, <<"[">>) THEN
        LET i == LastIndex(host, "]") IN
        IF i = 0 THEN TRUE
        ELSE ~validOptionalPort(From(host, i + 1))
    ELSE
        LET i == LastIndex(host, ":") IN
        IF i = 0 THEN FALSE
        ELSE ~validOptionalPort(From(host, i))

NoURL == [err |-> TRUE, Scheme |-> <<>>, Opaque |-> <<>>, Host |-> <<>>,
          Path |-> <<>>, RawQuery |-> <<>>, ForceQuery |-> FALSE,
          OmitHost |-> FALSE, Fragment |-> <<>>]

\* url.parse(rawURL, viaRequest = false), for rawURL without its fragment
parseNoFrag(rawURL) ==
    LET gs == getScheme(rawURL) IN
    IF gs.err THEN NoURL
    ELSE
    LET scheme == ToLower(gs.scheme)
        force == HasSuffix(gs.rest, <<"?">>) /\ Count(gs.rest, "?") = 1
        qcut == Cut(gs.rest, "?")
        rest1 == IF force THEN SubSeq(gs.rest, 1, Len(gs.rest) - 1) ELSE qcut.before
        rawq == IF force THEN <<>> ELSE qcut.after
        base == [err |-> FALSE, Scheme |-> scheme, Opaque |-> <<>>, Host |-> <<>>,
                 Path |-> <<>>, RawQuery |-> rawq, ForceQuery |-> force,
                 OmitHost |-> FALSE, Fragment |-> <<>>]
    IN
    IF ~HasPrefix(rest1, <<"/">>) /\ scheme # <<>> THEN
        [base EXCEPT !.Opaque = rest1]
    ELSE IF ~HasPrefix(rest1, <<"/">>) /\ Contains(Cut(rest1, "/").before, ":") THEN
        NoURL
    ELSE IF (scheme # <<>> \/ ~HasPrefix(rest1, <<"/", "/", "/">>))
            /\ HasPrefix(rest1, <<"/", "/">>) THEN
        LET auth0 == From(rest1, 3)
            i == Index(auth0, "/")
            authority == IF i > 0 THEN SubSeq(auth0, 1, i - 1) ELSE auth0
            rest2 == IF i > 0 THEN From(auth0, i) ELSE <<>>
        IN
        IF parseHostErr(authority) THEN NoURL
        ELSE [base EXCEPT !.Host = authority, !.Path = rest2]
    ELSE IF scheme # <<>> /\ HasPrefix(rest1, <<"/">>) THEN
        [base EXCEPT !.OmitHost = TRUE, !.Path = rest1]
    ELSE [base EXCEPT !.Path = rest1]

\* url.Parse: cut the fragment off, parse the rest, set the fragment
urlParse(rawURL) ==
    LET c == Cut(rawURL, "#")
        u == parseNoFrag(c.before)
    IN
    IF u.err THEN NoURL
    ELSE [u EXCEPT !.Fragment = c.after]

\* url.splitHostPort
splitHostPort(hostPort) ==
    LET colon == LastIndex(hostPort, ":")
        split == colon # 0 /\ validOptionalPort(From(hostPort, colon))
        host1 == IF split THEN SubSeq(hostPort, 1, colon - 1) ELSE hostPort
        port == IF split THEN From(hostPort, colon + 1) ELSE <<>>
        host2 == IF HasPrefix(host1, <<"[">>) /\ HasSuffix(host1, <<"]">>)
                 THEN SubSeq(host1, 2, Len(host1) - 1) ELSE host1
    IN [host |-> host2, port |-> port]

Hostname(u) == splitHostPort(u.Host).host

Port(u) == splitHostPort(u.Host).port

\* the percent-encoding of the characters url.shouldEscape escapes in a path
\* or a fragment, among the model's characters
PercentOf(c) ==
    CASE c = "#" -> <<"%", "2", "3">>
      [] c = " " -> <<"%", "2", "0">>
      [] c = "[" -> <<"%", "5", "B">>
      [] c = "]" -> <<"%", "5", "D">>
      [] OTHER -> <<c>>

\* url.escape(s, encodePath) and url.escape(s, encodeFragment)
RECURSIVE escape(_)
escape(s) == IF s = <<>> THEN <<>> ELSE PercentOf(s[1]) \o escape(Tail(s))

\* URL.EscapedPath: setPath keeps the path as written in RawPath, which is
\* used when url.validEncoded accepts it: it rejects ' ' (and accepts '[' ']')
EscapedPath(u) ==
    IF Contains(u.Path, " ") THEN escape(u.Path) ELSE u.Path

\* URL.EscapedFragment: the same with RawFragment; validEncoded rejects
\* '#' and ' '
EscapedFragment(u) ==
    IF Contains(u.Fragment, "#") \/ Contains(u.Fragment, " ")
    THEN escape(u.Fragment) ELSE u.Fragment

\* URL.String
urlString(u) ==
    LET schemePart == IF u.Scheme # <<>> THEN u.Scheme \o <<":">> ELSE <<>>
        slashes ==
            IF u.Scheme # <<>> \/ u.Host # <<>> THEN
                IF u.OmitHost /\ u.Host = <<>> THEN <<>>
                ELSE IF u.Host # <<>> \/ u.Path # <<>> THEN <<"/", "/">>
                ELSE <<>>
            ELSE <<>>
        dotSlash ==
            IF schemePart = <<>> /\ slashes = <<>> /\ u.Host = <<>>
               /\ Contains(Cut(EscapedPath(u), "/").before, ":")
            THEN <<".", "/">> ELSE <<>>
        path == EscapedPath(u)
        sep == IF path # <<>> /\ path[1] # "/" /\ u.Host # <<>>
               THEN <<"/">> ELSE <<>>
        hier == IF u.Opaque # <<>> THEN u.Opaque
                ELSE slashes \o u.Host \o sep \o dotSlash \o path
        queryPart == IF u.ForceQuery \/ u.RawQuery # <<>>
                     THEN <<"?">> \o u.RawQuery ELSE <<>>
        fragPart == IF u.Fragment # <<>> THEN <<"#">> \o EscapedFragment(u) ELSE <<>>
    IN schemePart \o hier \o queryPart \o fragPart

\* net.JoinHostPort
JoinHostPort(host, port) ==
    IF Contains(host, ":") \/ Contains(host, "%")
    THEN <<"[">> \o host \o <<"]", ":">> \o port
    ELSE host \o <<":">> \o port

(***************************************************************************)
(* cmd/doggo/nameservers.go                                                *)
(***************************************************************************)
DefaultTLSPort == <<"8", "5", "3">>
DefaultUDPPort == <<"5", "3">>
DefaultTCPPort == <<"5", "3">>
UDPResolver == "udp"
DOHResolver == "doh"
TCPResolver == "tcp"
DOTResolver == "dot"

HTTPS == <<"h", "t", "t", "p", "s">>
TLS == <<"t", "l", "s">>
TCP == <<"t", "c", "p">>
UDP == <<"u", "d", "p">>

\* the address initNameserver gives a tls/tcp/udp URL
hostPortOf(u, defaultPort) ==
    IF Port(u) = <<>> THEN JoinHostPort(Hostname(u), defaultPort)
    ELSE JoinHostPort(Hostname(u), Port(u))

\* initNameserver after url.Parse, with a tls URL without a port given the
\* UDP default
nameserverOf_TLSDefault53(ns0, u) ==
    IF u.err THEN [ns |-> ns0, err |-> TRUE]
    ELSE [err |-> FALSE,
          ns |-> CASE u.Scheme = HTTPS ->
                        [Type |-> DOHResolver, Address |-> urlString(u)]
                   [] u.Scheme = TLS ->
                        [Type |-> DOTResolver, Address |-> hostPortOf(u, DefaultUDPPort)]
                   [] u.Scheme = TCP ->
                        [Type |-> TCPResolver, Address |-> hostPortOf(u, DefaultTCPPort)]
                   [] u.Scheme = UDP ->
                        [Type |-> UDPResolver, Address |-> hostPortOf(u, DefaultUDPPort)]
                   [] OTHER -> ns0]

\* initNameserver after url.Parse: ns0 is the UDP fallback built first, u the
\* parsed URL.  The four scheme tests are sequential ifs over one parsed
\* scheme: at most one fires.
nameserverOf(ns0, u) ==
    IF u.err THEN [ns |-> ns0, err |-> TRUE]
    ELSE [err |-> FALSE,
          ns |-> CASE u.Scheme = HTTPS ->
                        [Type |-> DOHResolver, Address |-> urlString(u)]
                   [] u.Scheme = TLS ->
                        [Type |-> DOTResolver, Address |-> hostPortOf(u, DefaultTLSPort)]
                   [] u.Scheme = TCP ->
                        [Type |-> TCPResolver, Address |-> hostPortOf(u, DefaultTCPPort)]
                   [] u.Scheme = UDP ->
                        [Type |-> UDPResolver, Address |-> hostPortOf(u, DefaultUDPPort)]
                   [] OTHER -> ns0]

\* an initNameserver that gives a tls URL without a port the UDP default
initNameserver_TLSDefault53(n) ==
    nameserverOf_TLSDefault53([Type |-> UDPResolver, Address |-> JoinHostPort(n, DefaultUDPPort)],
             urlParse(n))

\* initNameserver: the Nameserver and whether url.Parse failed
initNameserver(n) ==
    nameserverOf([Type |-> UDPResolver, Address |-> JoinHostPort(n, DefaultUDPPort)],
             urlParse(n))

\* a getDefaultServers that drops the provider's error
getDefaultServers_SwallowErr(sys) ==
    [err |-> FALSE,
     servers |-> IF sys.err THEN <<>>
                 ELSE [i \in 1..Len(sys.servers) |->
                          [Type |-> UDPResolver,
                           Address |-> JoinHostPort(sys.servers[i], DefaultUDPPort)]],
     ndots |-> IF sys.err THEN 0 ELSE sys.ndots,
     search |-> IF sys.err THEN <<>> ELSE sys.search]

\* getDefaultServers: config.GetDefaultServers' answer, each address wrapped
\* as a UDP nameserver on the default port; on failure nil, 0, nil, err
getDefaultServers(sys) ==
    IF sys.err THEN [err |-> TRUE, servers |-> <<>>, ndots |-> 0, search |-> <<>>]
    ELSE [err |-> FALSE,
          servers |-> [i \in 1..Len(sys.servers) |->
                          [Type |-> UDPResolver,
                           Address |-> JoinHostPort(sys.servers[i], DefaultUDPPort)]],
          ndots |-> sys.ndots,
          search |-> sys.search]

\* the error values of loadNameservers; nil is <<>>
NilErr == <<>>
ErrParsing(srv) == <<"error parsing nameserver: %s", srv>>
ErrSysDefault == <<"error fetching system default nameserver">>

\* a loop that skips a string that does not parse and goes on
RECURSIVE loadUserNameservers_SkipBad(_, _)
loadUserNameservers_SkipBad(srvs, nameservers) ==
    IF srvs = <<>> THEN [Nameservers |-> nameservers, err |-> NilErr]
    ELSE
        LET r == initNameserver(Head(srvs)) IN
        IF r.err THEN loadUserNameservers_SkipBad(Tail(srvs), nameservers)
        ELSE loadUserNameservers_SkipBad(Tail(srvs), Append(nameservers, r.ns))

\* loadNameservers, the loop over hub.QueryFlags.Nameservers: the list after
\* it, and the error it returned with
RECURSIVE loadUserNameservers(_, _)
loadUserNameservers(srvs, nameservers) ==
    IF srvs = <<>> THEN [Nameservers |-> nameservers, err |-> NilErr]
    ELSE
        LET r == initNameserver(Head(srvs)) IN
        IF r.err THEN [Nameservers |-> nameservers, err |-> ErrParsing(Head(srvs))]
        ELSE loadUserNameservers(Tail(srvs),
                                 IF r.ns.Address # <<>> /\ r.ns.Type # ""
                                 THEN Append(nameservers, r.ns)
                                 ELSE nameservers)

\* an override that tests the current options instead of the user's flags
reconcileOpts_FromOpts(flags, opts, ndots, search) ==
    [Ndots |-> IF opts.Ndots = 0 THEN ndots ELSE opts.Ndots,
     SearchList |-> IF Len(search) > 0 THEN search ELSE opts.SearchList]

\* loadNameservers, the override of ResolverOpts in the fallback branch
reconcileOpts(flags, opts, ndots, search) ==
    [Ndots |-> IF flags.Ndots = 0 THEN ndots ELSE opts.Ndots,
     SearchList |-> IF Len(search) > 0 /\ flags.UseSearchList THEN search
                    ELSE opts.SearchList]

\* loadNameservers after its loop: h1 is the hub the loop left, d what
\* getDefaultServers answers (called only when h1 has no nameserver)
loadFallback(h1, d) ==
    IF Len(h1.Nameservers) = 0 THEN
        IF d.err THEN [hub |-> h1, err |-> ErrSysDefault, consulted |-> TRUE]
        ELSE [hub |-> [h1 EXCEPT
                          !.ResolverOpts = reconcileOpts(h1.QueryFlags, h1.ResolverOpts,
                                                         d.ndots, d.search),
                          !.Nameservers = h1.Nameservers \o d.servers],
              err |-> NilErr, consulted |-> TRUE]
    ELSE [hub |-> h1, err |-> NilErr, consulted |-> FALSE]

\* loadNameservers from the end of its loop on: user is what the loop left
loadAfterLoop(h, sys, user) ==
    IF user.err # NilErr
    THEN [hub |-> [h EXCEPT !.Nameservers = user.Nameservers], err |-> user.err,
          consulted |-> FALSE]
    ELSE loadFallback([h EXCEPT !.Nameservers = user.Nameservers],
                      getDefaultServers(sys))

\* loadNameservers: the hub after the call, the error returned, and whether
\* getDefaultServers was called
loadNameservers(h, sys) ==
    loadAfterLoop(h, sys, loadUserNameservers(h.QueryFlags.Nameservers, h.Nameservers))

(***************************************************************************)
(* github.com/miekg/dns as pkg/resolvers/utils.go uses it: IsFqdn, Fqdn,   *)
(* CountLabel (over NextLabel).  A dot after an odd number of backslashes  *)
(* is an escaped dot, part of a label.                                     *)
(***************************************************************************)
Dot == "."
Backslash == "\\"

\* the number of backslashes that end s
RECURSIVE trailingBackslashes(_)
trailingBackslashes(s) ==
    IF s = <<>> \/ s[Len(s)] # Backslash THEN 0
    ELSE 1 + trailingBackslashes(SubSeq(s, 1, Len(s) - 1))

\* dns.IsFqdn: s ends with a dot that is not escaped
IsFqdn(s) ==
    /\ HasSuffix(s, <<Dot>>)
    /\ trailingBackslashes(SubSeq(s, 1, Len(s) - 1)) % 2 = 0

\* dns.Fqdn
Fqdn(s) == IF IsFqdn(s) THEN s ELSE s \o <<Dot>>

\* dns.NextLabel(s, offset), offsets 0-based as in Go: the offset of the
\* next label and whether the end of the name was reached
RECURSIVE nextLabelFrom(_, _)
nextLabelFrom(s, i) ==
    IF i >= Len(s) - 1 THEN [i |-> i + 1, end |-> TRUE]
    ELSE IF s[i + 1] # Dot THEN nextLabelFrom(s, i + 1)
    ELSE IF trailingBackslashes(SubSeq(s, 1, i)) % 2 = 1 THEN nextLabelFrom(s, i + 1)
    ELSE [i |-> i + 1, end |-> FALSE]

NextLabel(s, offset) ==
    IF s = <<>> THEN [i |-> 0, end |-> TRUE] ELSE nextLabelFrom(s, offset)

\* dns.CountLabel
RECURSIVE countLabelFrom(_, _)
countLabelFrom(s, off) ==
    LET n == NextLabel(s, off) IN
    IF n.end THEN 1 ELSE 1 + countLabelFrom(s, n.i)

CountLabel(s) == IF s = <<Dot>> THEN 0 ELSE countLabelFrom(s, 0)

(***************************************************************************)
(* pkg/resolvers/utils.go                                                  *)
(***************************************************************************)
\* a constructPossibleQuestions that tries the bare name first as soon as
\* the label count reaches ndots
constructPossibleQuestions_AtLeastNdots(name, ndots, searchList) ==
    IF IsFqdn(name) THEN <<name>>
    ELSE
        LET hasNdots == CountLabel(name) >= ndots
            fq == Fqdn(name)
            suffixed == [i \in 1..Len(searchList) |-> Fqdn(fq \o searchList[i])]
        IN (IF hasNdots THEN <<fq>> ELSE <<>>) \o suffixed
           \o (IF ~hasNdots THEN <<fq>> ELSE <<>>)

\* a constructPossibleQuestions that applies the search list to a name that
\* is already fully qualified
constructPossibleQuestions_NoFqdnReturn(name, ndots, searchList) ==
    LET hasNdots == CountLabel(name) > ndots
        fq == Fqdn(name)
        suffixed == [i \in 1..Len(searchList) |-> Fqdn(fq \o searchList[i])]
    IN (IF hasNdots THEN <<fq>> ELSE <<>>) \o suffixed
       \o (IF ~hasNdots THEN <<fq>> ELSE <<>>)

\* constructPossibleQuestions
constructPossibleQuestions(name, ndots, searchList) ==
    IF IsFqdn(name) THEN <<name>>
    ELSE
        LET hasNdots == CountLabel(name) > ndots
            fq == Fqdn(name)
            suffixed == [i \in 1..Len(searchList) |-> Fqdn(fq \o searchList[i])]
        IN (IF hasNdots THEN <<fq>> ELSE <<>>) \o suffixed
           \o (IF ~hasNdots THEN <<fq>> ELSE <<>>)

\* dns.Id() draws a random uint16
MaxUint16 == 65535
IdValues == {0, MaxUint16}

\* a prepareMessages that builds every message from the caller's name
prepareMessages_CallerName(q, ndots, searchList, ids) ==
    LET possibleQNames == constructPossibleQuestions(q.Name, ndots, searchList) IN
    [i \in 1..Len(possibleQNames) |->
        [Id |-> ids[i], RecursionDesired |-> TRUE,
         Question |-> <<[Name |-> q.Name, Qtype |-> q.Qtype, Qclass |-> q.Qclass]>>]]

\* a prepareMessages that puts all the candidate names into one message
prepareMessages_Batched(q, ndots, searchList, ids) ==
    LET possibleQNames == constructPossibleQuestions(q.Name, ndots, searchList) IN
    <<[Id |-> ids[1], RecursionDesired |-> TRUE,
       Question |-> [i \in 1..Len(possibleQNames) |->
                        [Name |-> possibleQNames[i], Qtype |-> q.Qtype,
                         Qclass |-> q.Qclass]]]>>

\* prepareMessages; ids[i] is what the i-th call of dns.Id() returns
prepareMessages(q, ndots, searchList, ids) ==
    LET possibleQNames == constructPossibleQuestions(q.Name, ndots, searchList) IN
    [i \in 1..Len(possibleQNames) |->
        [Id |-> ids[i], RecursionDesired |-> TRUE,
         Question |-> <<[Name |-> possibleQNames[i], Qtype |-> q.Qtype,
                         Qclass |-> q.Qclass]>>]]

\* strconv.Itoa / strconv.FormatInt(n, 10) for n >= 0
DigitOf(d) == CASE d = 0 -> "0" [] d = 1 -> "1" [] d = 2 -> "2" [] d = 3 -> "3"
                [] d = 4 -> "4" [] d = 5 -> "5" [] d = 6 -> "6" [] d = 7 -> "7"
                [] d = 8 -> "8" [] d = 9 -> "9"

RECURSIVE Itoa(_)
Itoa(n) == IF n < 10 THEN <<DigitOf(n)>> ELSE Itoa(n \div 10) \o <<DigitOf(n % 10)>>

Space == <<" ">>

\* dns.Type(t).String() and dns.Class(c).String() for the types and classes
\* of the model's records, dns.RcodeToString[rcode] ("" when the map has no
\* entry)
TypeString(t) ==
    CASE t = 1 -> "A" [] t = 2 -> "NS" [] t = 5 -> "CNAME" [] t = 6 -> "SOA"
      [] t = 12 -> "PTR" [] t = 13 -> "HINFO" [] t = 15 -> "MX" [] t = 16 -> "TXT"
      [] t = 28 -> "AAAA" [] t = 33 -> "SRV" [] t = 35 -> "NAPTR"
      [] t = 48 -> "DNSKEY" [] t = 257 -> "CAA"

ClassString(c) == CASE c = 1 -> "IN" [] c = 3 -> "CH" [] c = 4 -> "HS"

RcodeToString(rcode) ==
    CASE rcode = 0 -> "NOERROR" [] rcode = 1 -> "FORMERR" [] rcode = 2 -> "SERVFAIL"
      [] rcode = 3 -> "NXDOMAIN" [] rcode = 4 -> "NOTIMP" [] rcode = 5 -> "REFUSED"
      [] OTHER -> ""

\* net.IP.String(): dotted decimal for a 4-byte address; the text of a
\* 16-byte address is not spelled out and stands as the address itself
ipString(ip) ==
    IF Len(ip) = 4
    THEN Itoa(ip[1]) \o <<Dot>> \o Itoa(ip[2]) \o <<Dot>> \o Itoa(ip[3])
         \o <<Dot>> \o Itoa(ip[4])
    ELSE <<ip>>

\* RR.String(): the header, tab separated, then the record's data; the data
\* of a SOA is its seven fields, that of a TXT or NAPTR its presentation text
hdrString(h) ==
    h.Name \o <<"\t">> \o Itoa(h.Ttl) \o <<"\t", ClassString(h.Class), "\t",
                                            TypeString(h.Rrtype), "\t">>

soaFields(soa) ==
    soa.Ns \o Space \o soa.Mbox
    \o Space \o Itoa(soa.Serial)
    \o Space \o Itoa(soa.Refresh)
    \o Space \o Itoa(soa.Retry)
    \o Space \o Itoa(soa.Expire)
    \o Space \o Itoa(soa.Minttl)

rrString(rr) ==
    hdrString(rr.Hdr) \o (IF rr.kind = "SOA" THEN soaFields(rr) ELSE rr.Text)

\* parseMessage, the type switch of the answer loop: the address of a record
addressOf(t) ==
    CASE t.kind = "A" -> ipString(t.A)
      [] t.kind = "AAAA" -> ipString(t.AAAA)
      [] t.kind = "CNAME" -> t.Target
      [] t.kind = "CAA" -> t.Tag \o Space \o t.Value
      [] t.kind = "HINFO" -> t.Cpu \o Space \o t.Os
      [] t.kind = "PTR" -> t.Ptr
      [] t.kind = "SRV" -> Itoa(t.Priority) \o Space \o Itoa(t.Weight) \o Space
                          \o t.Target \o <<":">> \o Itoa(t.Port)
      [] t.kind = "TXT" -> rrString(t)
      [] t.kind = "NS" -> t.Ns
      [] t.kind = "MX" -> Itoa(t.Preference) \o Space \o t.Mx
      [] t.kind = "SOA" -> rrString(t)
      [] t.kind = "NAPTR" -> rrString(t)
      [] OTHER -> <<>>

\* parseMessage, the body of the authority loop for a SOA record
authorityOf(ns, rcode, timeTaken, server) ==
    [Name |-> ns.Hdr.Name,
     Type |-> TypeString(ns.Hdr.Rrtype),
     TTL |-> Itoa(ns.Hdr.Ttl) \o <<"s">>,
     Class |-> ClassString(ns.Hdr.Class),
     MName |-> soaFields(ns),
     Nameserver |-> server,
     RTT |-> timeTaken,
     Status |-> RcodeToString(rcode)]

\* parseMessage, the body of the answer loop
answerOf(a, timeTaken, server) ==
    [Name |-> a.Hdr.Name,
     Type |-> TypeString(a.Hdr.Rrtype),
     TTL |-> Itoa(a.Hdr.Ttl) \o <<"s">>,
     Class |-> ClassString(a.Hdr.Class),
     Address |-> addressOf(a),
     RTT |-> timeTaken,
     Nameserver |-> server]

IsSOA(rr) == rr.kind = "SOA"

\* an authority loop that emits an Authority for every record of the section
parseAuthorities_EveryRecord(msg, timeTaken, server) ==
    [i \in 1..Len(msg.Ns) |->
        authorityOf(IF IsSOA(msg.Ns[i]) THEN msg.Ns[i]
                    ELSE [Hdr |-> msg.Ns[i].Hdr, Ns |-> <<>>, Mbox |-> <<>>,
                          Serial |-> 0, Refresh |-> 0, Retry |-> 0, Expire |-> 0,
                          Minttl |-> 0],
                    msg.Rcode, timeTaken, server)]

\* parseMessage, the authority loop: the SOA records only, in order
parseAuthorities(msg, timeTaken, server) ==
    LET soas == SelectSeq(msg.Ns, IsSOA) IN
    [i \in 1..Len(soas) |-> authorityOf(soas[i], msg.Rcode, timeTaken, server)]

\* parseMessage, the answer loop
parseAnswers(msg, timeTaken, server) ==
    [i \in 1..Len(msg.Answer) |-> answerOf(msg.Answer[i], timeTaken, server)]

\* parseMessage; rtt is the round trip in milliseconds
parseMessage(msg, rtt, server) ==
    LET timeTaken == Itoa(rtt) \o <<"m", "s">> IN
    [Authorities |-> parseAuthorities(msg, timeTaken, server),
     Answers |-> parseAnswers(msg, timeTaken, server)]

\* the strings initNameserver is tried on: a prefix followed by up to
\* MaxBodyLen characters, and a few bracketed IPv6 hosts
SchemeSep == <<":", "/", "/">>
Prefixes == {<<>>, UDP \o SchemeSep, TCP \o SchemeSep, TLS \o SchemeSep,
             HTTPS \o SchemeSep, <<"H", "T", "T", "P", "S">> \o SchemeSep,
             HTTPS \o <<":">>}
BodyChars == {"a", "1", ".", ":", "/", "#", "?", " "}
Bracketed == {<<"[", ":", ":", "1", "]">>, <<"[", ":", ":", "1", "]", ":", "5">>,
              <<"[", ":", ":", "1">>, <<"[", ":", ":", "1", "]", "a">>}
NsStrings ==
    {p \o b : p \in Prefixes, b \in SeqsUpTo(BodyChars, MaxBodyLen)}
    \cup {p \o b : p \in Prefixes, b \in Bracketed}

NoNameserver == [Type |-> "", Address |-> <<>>]

(***************************************************************************)
(* Idle values of the variables a specification does not use.              *)
(***************************************************************************)
IdleHub == [QueryFlags |-> [Nameservers |-> <<>>, Ndots |-> 0, UseSearchList |-> FALSE],
            ResolverOpts |-> [Ndots |-> 0, SearchList |-> <<>>],
            Nameservers |-> <<>>]
IdleSys == [err |-> TRUE, servers |-> <<>>, ndots |-> 0, search |-> <<>>]
IdleLoadRet == [called |-> FALSE, err |-> <<>>, consulted |-> FALSE, hub0 |-> IdleHub]
IdleNsOut == [called |-> FALSE, ns |-> NoNameserver, err |-> FALSE]
IdleQuery == [q |-> [Name |-> <<>>, Qtype |-> 0, Qclass |-> 0], ndots |-> 0,
              searchList |-> <<>>]
IdleMessages == [called |-> FALSE, possibleQNames |-> <<>>, msgs |-> <<>>]
IdleRawMsg == [msg |-> [Rcode |-> 0, Ns |-> <<>>, Answer |-> <<>>], rtt |-> 0,
               server |-> <<>>]
IdleResp == [called |-> FALSE, Authorities |-> <<>>, Answers |-> <<>>]

(***************************************************************************)
(* Spec: loadNameservers called once on a freshly constructed Hub.         *)
(***************************************************************************)
\* nameserver strings a user may give: three that parse, two that do not
NsPlain == <<"1">>
NsTLS == TLS \o SchemeSep \o <<"1">>
NsDOH == HTTPS \o SchemeSep \o <<"a">>
NsBadScheme == <<":", "1">>
NsBadPort == TCP \o SchemeSep \o <<"a", ":", "a">>
NsPool == {NsPlain, NsTLS, NsDOH, NsBadScheme, NsBadPort}

\* addresses the system configuration may list
SysAddrPool == {<<"9">>, <<":", ":", "1">>}
UserSearch == <<"c">>
SysSearch == <<"d">>

Init ==
    /\ hub \in [QueryFlags : [Nameservers : SeqsUpTo(NsPool, MaxUserNs),
                              Ndots : {0, 1},
                              UseSearchList : BOOLEAN],
                ResolverOpts : [Ndots : {0, 1}, SearchList : {<<>>, <<UserSearch>>}],
                Nameservers : {<<>>}]
    /\ sysconf \in {IdleSys} \cup
                   [err : {FALSE}, servers : SeqsUpTo(SysAddrPool, MaxSysServers),
                    ndots : {1, 2}, search : {<<>>, <<SysSearch>>}]
    /\ loadRet = IdleLoadRet
    /\ nsIn = <<>> /\ nsOut = IdleNsOut
    /\ query = IdleQuery /\ messages = IdleMessages
    /\ rawMsg = IdleRawMsg /\ resp = IdleResp

LoadNameservers ==
    /\ ~loadRet.called
    /\ \E r \in {loadNameservers(hub, sysconf)} :
          /\ hub' = r.hub
          /\ loadRet' = [called |-> TRUE, err |-> r.err, consulted |-> r.consulted,
                         hub0 |-> hub]
    /\ UNCHANGED <<sysconf, nsIn, nsOut, query, messages, rawMsg, resp>>

Next == LoadNameservers

Spec == Init /\ [][Next]_vars

(***************************************************************************)
(* Claims about loadNameservers (under Spec).                              *)
(***************************************************************************)
UserList == loadRet.hub0.QueryFlags.Nameservers

\* the endpoints of the pool's parseable strings, written out
ExpectedEndpoint(s) ==
    CASE s = NsPlain -> [Type |-> "udp", Address |-> <<"1", ":", "5", "3">>]
      [] s = NsTLS -> [Type |-> "dot", Address |-> <<"1", ":", "8", "5", "3">>]
      [] s = NsDOH -> [Type |-> "doh",
                       Address |-> <<"h", "t", "t", "p", "s", ":", "/", "/", "a">>]

Unparseable(s) == s \in {NsBadScheme, NsBadPort}

BadIndexes == {i \in 1..Len(UserList) : Unparseable(UserList[i])}

FirstBad == CHOOSE i \in BadIndexes : \A j \in BadIndexes : i <= j

\* C1 (as claimed): a call of loadNameservers that starts with an empty
\* endpoint list and returns no error leaves the endpoint list non-empty.
C1_NeverEmptyWithNilError ==
    (loadRet.called /\ loadRet.err = NilErr) => hub.Nameservers # <<>>

\* C2 (as claimed): a string that cannot be parsed does not stop the loader:
\* every parseable string after it still has its endpoint in the list.
C2_BadStringDoesNotAbort ==
    loadRet.called =>
        \A i \in 1..Len(UserList) : \A j \in 1..Len(UserList) :
            (i < j /\ Unparseable(UserList[i]) /\ ~Unparseable(UserList[j]))
            => \E k \in 1..Len(hub.Nameservers) :
                   hub.Nameservers[k] = ExpectedEndpoint(UserList[j])

\* C2 (amended): the first string that cannot be parsed stops the loader:
\* it returns an error naming that string, the endpoint list holds the
\* endpoints of the strings before it and of none after it, the system
\* defaults are not consulted and the options are untouched.
C2_FirstBadStringAborts ==
    (loadRet.called /\ BadIndexes # {}) =>
        /\ loadRet.err = ErrParsing(UserList[FirstBad])
        /\ hub.Nameservers = [k \in 1..(FirstBad - 1) |-> ExpectedEndpoint(UserList[k])]
        /\ ~loadRet.consulted
        /\ hub.ResolverOpts = loadRet.hub0.ResolverOpts

C2_Witness ==
    /\ loadRet.called
    /\ UserList = <<NsBadScheme, NsPlain>>
    /\ loadRet.err = ErrParsing(NsBadScheme)
    /\ hub.Nameservers = <<>>

\* C8: with an empty user list and a failing system defaults provider the
\* call returns an error, the endpoint list is still empty and ndots and
\* the search list are as before the call.
C8_EmptyListFailingProvider ==
    (loadRet.called /\ UserList = <<>> /\ sysconf.err) =>
        /\ loadRet.err # NilErr
        /\ hub.Nameservers = <<>>
        /\ hub.ResolverOpts = loadRet.hub0.ResolverOpts

C8_Witness ==
    /\ loadRet.called /\ UserList = <<>> /\ sysconf.err
    /\ loadRet.hub0.QueryFlags.Ndots = 0
    /\ loadRet.hub0.QueryFlags.UseSearchList
    /\ hub.ResolverOpts = [Ndots |-> 1, SearchList |-> <<UserSearch>>]
    /\ loadRet.err = ErrSysDefault

\* C10: after a successful call the options differ from those before it
\* only through the fallback: ndots is the system's exactly when no endpoint
\* came from the user list and the user's ndots was 0; the search list is
\* the system's exactly when no endpoint came from the user list, the
\* system list is non-empty and the user opted into it; the provider is
\* consulted only in the fallback, and the user's flags never change.
C10_OptionsChangeOnlyThroughFallback ==
    (loadRet.called /\ loadRet.err = NilErr) =>
        LET h0 == loadRet.hub0
            fallback == Len(UserList) = 0
        IN
        /\ loadRet.consulted = fallback
        /\ hub.ResolverOpts.Ndots =
               IF fallback /\ h0.QueryFlags.Ndots = 0 THEN sysconf.ndots
               ELSE h0.ResolverOpts.Ndots
        /\ hub.ResolverOpts.SearchList =
               IF fallback /\ sysconf.search # <<>> /\ h0.QueryFlags.UseSearchList
               THEN sysconf.search
               ELSE h0.ResolverOpts.SearchList
        /\ hub.QueryFlags = h0.QueryFlags
        /\ ~fallback => hub.Nameservers =
                            [k \in 1..Len(UserList) |-> ExpectedEndpoint(UserList[k])]

C10_Witness ==
    /\ loadRet.called /\ loadRet.err = NilErr /\ loadRet.consulted
    /\ loadRet.hub0.QueryFlags.Ndots = 0
    /\ loadRet.hub0.QueryFlags.UseSearchList
    /\ loadRet.hub0.ResolverOpts = [Ndots |-> 1, SearchList |-> <<UserSearch>>]
    /\ hub.ResolverOpts = [Ndots |-> 2, SearchList |-> <<SysSearch>>]
    /\ hub.Nameservers = <<[Type |-> "udp", Address |-> <<"9", ":", "5", "3">>]>>

(***************************************************************************)
(* SpecClassify: initNameserver applied to one string.                     *)
(***************************************************************************)
InitClassify ==
    /\ nsIn \in NsStrings
    /\ nsOut = IdleNsOut
    /\ hub = IdleHub /\ sysconf = IdleSys /\ loadRet = IdleLoadRet
    /\ query = IdleQuery /\ messages = IdleMessages
    /\ rawMsg = IdleRawMsg /\ resp = IdleResp

Classify ==
    /\ ~nsOut.called
    /\ \E r \in {initNameserver(nsIn)} :
          nsOut' = [called |-> TRUE, ns |-> r.ns, err |-> r.err]
    /\ UNCHANGED <<hub, sysconf, loadRet, nsIn, query, messages, rawMsg, resp>>

NextClassify == Classify

SpecClassify == InitClassify /\ [][NextClassify]_vars

(***************************************************************************)
(* SpecQuery: prepareMessages applied to one question.                     *)
(***************************************************************************)
NameChars == {"a", Dot, Backslash}
SearchPool == {<<>>, <<"c">>, <<"c", Dot>>, <<"d">>}
TypeMX == 15
ClassINET == 1

InitQuery ==
    /\ query \in [q : [Name : SeqsUpTo(NameChars, MaxNameLen), Qtype : {TypeMX},
                       Qclass : {ClassINET}],
                  ndots : 0..MaxNdots,
                  searchList : SeqsUpTo(SearchPool, MaxSearch)]
    /\ messages = IdleMessages
    /\ hub = IdleHub /\ sysconf = IdleSys /\ loadRet = IdleLoadRet
    /\ nsIn = <<>> /\ nsOut = IdleNsOut
    /\ rawMsg = IdleRawMsg /\ resp = IdleResp

PrepareMessages ==
    /\ ~messages.called
    /\ LET names == constructPossibleQuestions(query.q.Name, query.ndots,
                                               query.searchList)
       IN \E ids \in [1..Len(names) -> IdValues] :
             messages' = [called |-> TRUE, possibleQNames |-> names,
                          msgs |-> prepareMessages(query.q, query.ndots,
                                                   query.searchList, ids)]
    /\ UNCHANGED <<hub, sysconf, loadRet, nsIn, nsOut, query, rawMsg, resp>>

NextQuery == PrepareMessages

SpecQuery == InitQuery /\ [][NextQuery]_vars

(***************************************************************************)
(* Claims about constructPossibleQuestions and prepareMessages (under      *)
(* SpecQuery).                                                             *)
(***************************************************************************)
\* the name with the root terminator appended
Qualified(name) == name \o <<Dot>>

\* C3: for a name that is not fully qualified, with F its fully-qualified
\* form and S the search list of k entries, the candidates are the k+1
\* names [F, F+s1, .., F+sk] when the name has more labels than ndots and
\* [F+s1, .., F+sk, F] otherwise, each F+si fully qualified and in the
\* order of S; with an empty S they are [F].
C3_CandidatesOfUnqualifiedName ==
    (messages.called /\ ~IsFqdn(query.q.Name)) =>
        LET F == Qualified(query.q.Name)
            S == query.searchList
            k == Len(S)
            got == messages.possibleQNames
            enough == CountLabel(query.q.Name) > query.ndots
        IN
        /\ Len(got) = k + 1
        /\ got[IF enough THEN 1 ELSE k + 1] = F
        /\ \A i \in 1..k : got[IF enough THEN i + 1 ELSE i] = Fqdn(F \o S[i])
        /\ k = 0 => got = <<F>>

\* "a", one label, ndots 1: the suffixed name first; and "a.a", two labels:
\* the bare name first
C3_Witness ==
    /\ messages.called
    /\ query.ndots = 1
    /\ query.searchList = <<<<"c">>>>
    /\ \/ /\ query.q.Name = <<"a">>
          /\ messages.possibleQNames = << <<"a", Dot, "c", Dot>>, <<"a", Dot>> >>
       \/ /\ query.q.Name = <<"a", Dot, "a">>
          /\ messages.possibleQNames =
                 << <<"a", Dot, "a", Dot>>, <<"a", Dot, "a", Dot, "c", Dot>> >>

\* C4: a name that is already fully qualified yields the one candidate
\* [name], unchanged, whatever ndots and the search list are.
C4_QualifiedNameIsOnlyCandidate ==
    (messages.called /\ IsFqdn(query.q.Name)) =>
        messages.possibleQNames = <<query.q.Name>>

C4_Witness ==
    /\ messages.called
    /\ query.q.Name = <<"a", Dot>>
    /\ query.ndots = MaxNdots
    /\ query.searchList = <<<<"c">>, <<"d">>>>
    /\ messages.possibleQNames = << <<"a", Dot>> >>

\* C5: prepareMessages returns one message per candidate name, in the
\* order of the candidates; the i-th has recursion-desired set and exactly
\* one question: the i-th candidate name with the qtype and qclass of q.
C5_OneMessagePerCandidate ==
    messages.called =>
        LET names == messages.possibleQNames
            msgs == messages.msgs
        IN
        /\ Len(msgs) = Len(names)
        /\ \A i \in 1..Len(msgs) :
              /\ msgs[i].RecursionDesired
              /\ Len(msgs[i].Question) = 1
              /\ msgs[i].Question = <<[Name |-> names[i], Qtype |-> query.q.Qtype,
                                       Qclass |-> query.q.Qclass]>>

C5_Witness ==
    /\ messages.called
    /\ Len(messages.msgs) = MaxSearch + 1
    /\ messages.msgs[1].Question[1].Name # messages.msgs[2].Question[1].Name
    /\ messages.msgs[2].Question[1].Qtype = TypeMX

\* the question names of the batch are pairwise distinct
DistinctQuestionNames ==
    \A i \in 1..Len(messages.msgs) : \A j \in 1..Len(messages.msgs) :
        i # j => messages.msgs[i].Question[1].Name # messages.msgs[j].Question[1].Name

\* the search list has no empty entry and no two entries with the same
\* fully-qualified form
DistinctSearchList ==
    LET S == query.searchList IN
    /\ \A i \in 1..Len(S) : S[i] # <<>>
    /\ \A i \in 1..Len(S) : \A j \in 1..Len(S) : i # j => Fqdn(S[i]) # Fqdn(S[j])

\* C6 (as claimed): one message per candidate name, every message with a
\* question name distinct from every other message's and an id that is not 0.
C6_DistinctNamesNonZeroIds ==
    messages.called =>
        /\ Len(messages.msgs) = Len(messages.possibleQNames)
        /\ DistinctQuestionNames
        /\ \A i \in 1..Len(messages.msgs) : messages.msgs[i].Id # 0

\* C6 (amended): one message per candidate name; the question names are
\* pairwise distinct when the search list has no empty entry and no two
\* entries with the same fully-qualified form; the id is any 16-bit value,
\* zero included.
C6_DistinctNamesForDistinctSearch ==
    messages.called =>
        /\ Len(messages.msgs) = Len(messages.possibleQNames)
        /\ DistinctSearchList => DistinctQuestionNames
        /\ \A i \in 1..Len(messages.msgs) : messages.msgs[i].Id \in 0..MaxUint16

C6_Witness ==
    /\ messages.called
    /\ query.q.Name = <<"a">>
    /\ query.searchList = <<<<"c">>, <<"d">>>>
    /\ DistinctQuestionNames
    /\ Len(messages.msgs) = MaxSearch + 1
    /\ messages.msgs[1].Id = 0
    /\ messages.msgs[2].Id = MaxUint16

(***************************************************************************)
(* Claims about initNameserver (under SpecClassify).                       *)
(***************************************************************************)
Port53 == <<"5", "3">>
Port853 == <<"8", "5", "3">>

\* the explicit port of the parsed URL, or the default
PortOr(u, default) == IF Port(u) # <<>> THEN Port(u) ELSE default

\* what the claim says of the schemes other than https
NonDoHEndpoints(u) ==
    /\ u.Scheme = <<>> =>
           nsOut.ns = [Type |-> "udp", Address |-> JoinHostPort(nsIn, Port53)]
    /\ u.Scheme = UDP =>
           nsOut.ns = [Type |-> "udp",
                       Address |-> JoinHostPort(Hostname(u), PortOr(u, Port53))]
    /\ u.Scheme = TCP =>
           nsOut.ns = [Type |-> "tcp",
                       Address |-> JoinHostPort(Hostname(u), PortOr(u, Port53))]
    /\ u.Scheme = TLS =>
           nsOut.ns = [Type |-> "dot",
                       Address |-> JoinHostPort(Hostname(u), PortOr(u, Port853))]

\* "https://" in lower case, then a host or a path, and neither '#' nor ' '
\* (the other characters of the model are letters, digits, '.' ':' '/' '?'
\* and '[' ']')
PlainHttpsURL(n) ==
    /\ HasPrefix(n, HTTPS \o SchemeSep)
    /\ Len(n) > Len(HTTPS \o SchemeSep)
    /\ n[Len(HTTPS \o SchemeSep) + 1] # "?"
    /\ ~Contains(n, "#") /\ ~Contains(n, " ")

\* C9 (as claimed): a string that parses gives: no scheme, udp and the
\* string joined with 53; udp or tcp, that type and host joined with the
\* explicit port or 53; tls, dot and host joined with the explicit port or
\* 853; https, doh and the input string unchanged.
C9_EndpointPerScheme ==
    (nsOut.called /\ ~nsOut.err) =>
        LET u == urlParse(nsIn) IN
        /\ NonDoHEndpoints(u)
        /\ u.Scheme = HTTPS => nsOut.ns = [Type |-> "doh", Address |-> nsIn]

\* C9 (amended): as claimed for no scheme, udp, tcp and tls; https gives
\* doh with the parsed URL written back by URL.String, which is the input
\* unchanged when the input is "https://" in lower case followed by a host
\* or a path and holds neither '#' nor a space.
C9_EndpointPerSchemeDoHRewritten ==
    (nsOut.called /\ ~nsOut.err) =>
        LET u == urlParse(nsIn) IN
        /\ NonDoHEndpoints(u)
        /\ u.Scheme = HTTPS =>
               /\ nsOut.ns = [Type |-> "doh", Address |-> urlString(u)]
               /\ PlainHttpsURL(nsIn) => nsOut.ns.Address = nsIn

C9_Witness ==
    /\ nsOut.called /\ ~nsOut.err
    /\ nsIn = TLS \o SchemeSep \o <<"a", ":", "1">>
    /\ nsOut.ns = [Type |-> "dot", Address |-> <<"a", ":", "1">>]

(***************************************************************************)
(* SpecParse: parseMessage applied to one response.                        *)
(***************************************************************************)
Hdr(name, rrtype, ttl) == [Name |-> name, Rrtype |-> rrtype, Class |-> 1, Ttl |-> ttl]

RR_A == [kind |-> "A", Hdr |-> Hdr(<<"a", Dot>>, 1, 300), A |-> <<10, 0, 0, 255>>]
RR_MX == [kind |-> "MX", Hdr |-> Hdr(<<"a", Dot>>, 15, 60), Preference |-> 10,
          Mx |-> <<"m", Dot>>]
RR_NS == [kind |-> "NS", Hdr |-> Hdr(<<"a", Dot>>, 2, 60), Ns |-> <<"n", Dot>>]
RR_DNSKEY == [kind |-> "DNSKEY", Hdr |-> Hdr(<<"a", Dot>>, 48, 60)]
RR_SOA1 == [kind |-> "SOA", Hdr |-> Hdr(<<"a", Dot>>, 6, 900), Ns |-> <<"n", Dot>>,
            Mbox |-> <<"h", Dot>>, Serial |-> 2021, Refresh |-> 7200, Retry |-> 900,
            Expire |-> 1209600, Minttl |-> 0]
RR_SOA2 == [kind |-> "SOA", Hdr |-> Hdr(<<Dot>>, 6, 5), Ns |-> <<"r", Dot>>,
            Mbox |-> <<"x", Dot>>, Serial |-> 1, Refresh |-> 2, Retry |-> 3,
            Expire |-> 4, Minttl |-> 5]

AuthorityPool == {RR_SOA1, RR_SOA2, RR_NS, RR_A}
AnswerPool == {RR_A, RR_MX, RR_DNSKEY, RR_SOA1}
Rcodes == {0, 3, 12}
Server == <<"9", ":", "5", "3">>

InitParse ==
    /\ rawMsg \in [msg : [Rcode : Rcodes, Ns : SeqsUpTo(AuthorityPool, MaxRR),
                          Answer : SeqsUpTo(AnswerPool, MaxRR)],
                   rtt : {12}, server : {Server}]
    /\ resp = IdleResp
    /\ hub = IdleHub /\ sysconf = IdleSys /\ loadRet = IdleLoadRet
    /\ nsIn = <<>> /\ nsOut = IdleNsOut
    /\ query = IdleQuery /\ messages = IdleMessages

ParseMessage ==
    /\ ~resp.called
    /\ \E r \in {parseMessage(rawMsg.msg, rawMsg.rtt, rawMsg.server)} :
          resp' = [called |-> TRUE, Authorities |-> r.Authorities,
                   Answers |-> r.Answers]
    /\ UNCHANGED <<hub, sysconf, loadRet, nsIn, nsOut, query, messages, rawMsg>>

NextParse == ParseMessage

SpecParse == InitParse /\ [][NextParse]_vars

(***************************************************************************)
(* Claims about parseMessage (under SpecParse).                            *)
(***************************************************************************)
\* the positions of the SOA records in the authority section, in order
RECURSIVE SOAPositions(_, _)
SOAPositions(ns, i) ==
    IF i > Len(ns) THEN <<>>
    ELSE (IF ns[i].Hdr.Rrtype = 6 THEN <<i>> ELSE <<>>) \o SOAPositions(ns, i + 1)

ExpectedStatus ==
    CASE rawMsg.msg.Rcode = 0 -> "NOERROR"
      [] rawMsg.msg.Rcode = 3 -> "NXDOMAIN"
      [] OTHER -> ""

\* C7: parseMessage returns, for every response, one Answer per record of
\* the answer section, in order, a record of an unsupported type with an
\* empty address; and one Authority per SOA record of the authority
\* section, in order, none for any other record, each with the response's
\* result code as its status.
C7_AnswersAndSOAAuthorities ==
    resp.called =>
        LET msg == rawMsg.msg
            pos == SOAPositions(msg.Ns, 1)
        IN
        /\ Len(resp.Answers) = Len(msg.Answer)
        /\ \A i \in 1..Len(msg.Answer) :
              /\ resp.Answers[i].Name = msg.Answer[i].Hdr.Name
              /\ resp.Answers[i].Type = msg.Answer[i].kind
              /\ resp.Answers[i].TTL = Itoa(msg.Answer[i].Hdr.Ttl) \o <<"s">>
              /\ msg.Answer[i] = RR_DNSKEY => resp.Answers[i].Address = <<>>
              /\ msg.Answer[i] = RR_A =>
                     resp.Answers[i].Address = <<"1", "0", ".", "0", ".", "0", ".",
                                                 "2", "5", "5">>
              /\ msg.Answer[i] = RR_MX =>
                     resp.Answers[i].Address = <<"1", "0", " ", "m", ".">>
        /\ Len(resp.Authorities) = Len(pos)
        /\ \A i \in 1..Len(pos) :
              /\ resp.Authorities[i].Name = msg.Ns[pos[i]].Hdr.Name
              /\ resp.Authorities[i].Type = "SOA"
              /\ resp.Authorities[i].MName = soaFields(msg.Ns[pos[i]])
              /\ resp.Authorities[i].Status = ExpectedStatus

C7_Witness ==
    /\ resp.called
    /\ rawMsg.msg.Rcode = 3
    /\ rawMsg.msg.Ns = <<RR_NS, RR_SOA2>>
    /\ rawMsg.msg.Answer = <<RR_DNSKEY, RR_A>>
    /\ Len(resp.Authorities) = 1
    /\ resp.Authorities[1].MName =
           <<"r", ".", " ", "x", ".", " ", "1", " ", "2", " ", "3", " ", "4", " ", "5">>
    /\ resp.Authorities[1].Status = "NXDOMAIN"
    /\ Len(resp.Answers) = 2
    /\ resp.Answers[1].Address = <<>>

====
